---------------------------- MODULE Spec2Model ----------------------------
(***************************************************************************)
(* Model of the preview/session subsystem of apps/web/src/server.ts:       *)
(* the port allocator, the dev-server launcher, the preview session        *)
(* registry, the reverse proxy router, the stop handler and the periodic   *)
(* cleanup sweep, together with the child processes they create; of its   *)
(* plan, diagnose and apply routes; of the engine's POST /api/apply        *)
(* (packages/engine) and of the demo API server (apps/server).             *)
(***************************************************************************)
EXTENDS Integers, Sequences, FiniteSets, TLC

(* ---------------- bounds of the model ---------------- *)
MaxUuid  == 4      \* values uuidv4() hands out in one behaviour
MaxPid   == 2      \* child processes the OS holds at one time
MaxOrphans == 1    \* dev servers that outlive their killed npm parent
MaxPorts == 2      \* width of the port range scanned by getFreePort
MaxTicks == 3      \* clock ticks of one behaviour
MaxBudget == 2     \* largest totalMs of a prober call, in polling intervals
MaxRange == 3      \* ports a followed call of getFreePort may scan
MaxProjects == 3   \* projects uploaded to the demo API server
MaxLog == 6        \* log lines of a project beyond which no verify is sent

(* ---------------- program constants ---------------- *)
CLEANUP_INTERVAL == 10 * 60 * 1000
PORT_START == 5100
PORT_END == PORT_START + MaxPorts - 1
maxRetry == 4
NumPaths == 5      \* candidate paths of the health prober
TickMs == CLEANUP_INTERVAL

Uuids  == 1..MaxUuid
Pids   == 1..MaxPid
Ports  == PORT_START..PORT_END
Slots  == {1, 2}        \* two start-preview requests may overlap
Frameworks == {"vite", "next", "unknown"}

VARIABLES
  now,              \* Date.now()
  lastSweep,        \* time the setInterval callback last ran
  nextUuid,         \* state of uuidv4(): the next value it returns
  dirs,             \* temp directories that exist on disk
  procs,            \* OS process table: pid -> child process record
  previewSessions,  \* Map<string, PreviewSession>
  planSessions,     \* Map<string, PlanSession>
  diagnoseSessions, \* Map<string, PlanSession>
  migrationResults, \* Map<string, {zipPath, timestamp}>
  reqs,             \* start-preview requests in flight, by slot
  stopping,         \* stop requests awaiting fs.remove: the session each holds
  handedOut,        \* session ids sent to clients by sendPreviewOk
  resp,             \* the response (or forward) produced by the last step, if any
  alive,            \* the orchestrator's Node process runs
  probe,            \* one call of the health prober, followed ping by ping
  applies,          \* POST /api/apply requests in flight, by slot
  engine,           \* the engine's app: the project on disk, applyFn calls, last response
  projects,         \* demo API server: Map<string, PState>
  timers,           \* demo API server: setTimeout callbacks pending, per project
  alloc,            \* one call of getFreePort, followed port by port
  pidWrap           \* the OS's pid counter has wrapped: pids of exited processes return

vars == <<now, lastSweep, nextUuid, dirs, procs, previewSessions,
          planSessions, diagnoseSessions, migrationResults, reqs, stopping,
          handedOut, resp, alive, probe, applies, engine, projects, timers,
          alloc, pidWrap>>

webVarsButResp == <<now, lastSweep, nextUuid, dirs, procs, previewSessions,
                    planSessions, diagnoseSessions, migrationResults, reqs,
                    stopping, handedOut, alive, probe>>

(* The variables of apps/web/src/server.ts but for the apply requests. *)
webVars == <<now, lastSweep, nextUuid, dirs, procs, previewSessions,
             planSessions, diagnoseSessions, migrationResults, reqs, stopping,
             handedOut, resp, alive, probe>>

(* ---------------- helpers ---------------- *)
Remove(f, k) == [x \in (DOMAIN f) \ {k} |-> f[x]]
Put(f, k, v) == [x \in (DOMAIN f) \cup {k} |-> IF x = k THEN v ELSE f[x]]

NoPath == << >>
Response(kind, id, status, port, path, ok) ==
  [kind |-> kind, id |-> id, status |-> status, port |-> port,
   path |-> path, ok |-> ok, error |-> ""]
ErrorResponse(kind, id, status, error) ==
  [Response(kind, id, status, 0, NoPath, FALSE) EXCEPT !.error = error]

(* A generator that hands out the id of a session that is gone again. *)
uuidv4Reused ==
  IF handedOut \ DOMAIN previewSessions # {}
  THEN CHOOSE id \in handedOut \ DOMAIN previewSessions : TRUE
  ELSE nextUuid

(* uuidv4(): a value it has not returned before. *)
uuidv4 == nextUuid

(* A response that names the first port of the range, whatever the       *)
(* session's port is.                                                     *)
sendPreviewOkFirstPort(previewId, port) ==
  Response("start", previewId, 200, PORT_START, << "/preview/", previewId >>, TRUE)

(* sendPreviewOk: previewId, previewUrl /preview/<previewId>, port. *)
sendPreviewOk(previewId, port) ==
  Response("start", previewId, 200, port, << "/preview/", previewId >>, TRUE)
NoResp == Response("none", 0, 0, 0, NoPath, FALSE)

IdleReq == [pc |-> "idle", tempDir |-> 0, fw |-> "unknown", attempt |-> 0,
            t |-> 0, port |-> 0, child |-> 0, spawned |-> 0,
            installExit |-> 0, aborted |-> FALSE]

(* The ids a client sends: the session ids it was given, and one string   *)
(* that uuidv4 never returned.                                            *)
UnknownId == 0
ClientIds == handedOut \cup {UnknownId}

InFlight == {r \in Slots : reqs[r].pc # "idle"}

(* A TCP port is bound when some dev server listens on it. *)
PortBound(pt, p) == \E pid \in DOMAIN pt : pt[pid].srv = "listen" /\ pt[pid].port = p

(* getFreePort: the first port of the range on which a listener binds. *)
FreePorts(pt) == {p \in Ports : ~PortBound(pt, p)}
HasFreePort(pt) == FreePorts(pt) # {}
getFreePort(pt) == CHOOSE p \in FreePorts(pt) : \A q \in FreePorts(pt) : p <= q

(* The strategies built for one attempt. *)
triesPortFlagOnly(fw) == << "unknown --port" >>

tries(fw) ==
  IF fw = "vite" THEN << "vite --port --strictPort" >>
  ELSE IF fw = "next" THEN << "next --port", "next env PORT only" >>
  ELSE << "unknown --port" >>

(* getFreePort at rest: no call is being followed. inUse are the ports    *)
(* other processes listen on, listeners the ports on which a net.Server   *)
(* created by tryPort listens.                                            *)
NoPort == 0
IdleAlloc == [pc |-> "idle", start |-> NoPort, end |-> NoPort, p |-> NoPort,
              inUse |-> {}, listeners |-> {}, result |-> NoPort,
              error |-> "none"]

(* getFreePort followed through its loop. tryPort(p) creates a server and *)
(* calls listen(p): either 'error' fires and it resolves false, or        *)
(* 'listening' fires and the server is closed, the promise resolving true *)
(* in the close callback.                                                 *)
ScanPorts == PORT_START..(PORT_START + MaxRange - 1)
bindable(a, p) == p \notin a.inUse \cup a.listeners

closeServerSkipped(ls, p) == ls
closeServer(ls, p) == ls \ {p}

(* Other processes bind and release ports between two calls. *)
PortsChange(S) ==
  /\ alloc.pc = "idle"
  /\ alloc' = [IdleAlloc EXCEPT !.inUse = S, !.listeners = alloc.listeners]
  /\ UNCHANGED <<webVars, applies, engine, projects, timers, pidWrap>>

GetFreePortCall(start, end) ==
  /\ alloc.pc = "idle"
  /\ alloc' = [alloc EXCEPT !.pc = "loop", !.start = start, !.end = end,
                            !.p = start, !.result = NoPort, !.error = "none"]
  /\ UNCHANGED <<webVars, applies, engine, projects, timers, pidWrap>>

(* for (p = start; p <= end; p++) if (await tryPort(p)) return p; throw *)
TryPortListen ==
  /\ alloc.pc = "loop"
  /\ alloc' = IF alloc.p > alloc.end
               THEN [alloc EXCEPT !.pc = "done", !.error = "No free port found"]
               ELSE IF bindable(alloc, alloc.p)
               THEN [alloc EXCEPT !.pc = "listening", !.listeners = @ \cup {alloc.p}]
               ELSE [alloc EXCEPT !.p = @ + 1]
  /\ UNCHANGED <<webVars, applies, engine, projects, timers, pidWrap>>

TryPortClose ==
  /\ alloc.pc = "listening"
  /\ alloc' = [alloc EXCEPT !.pc = "done", !.result = alloc.p,
                            !.listeners = closeServer(@, alloc.p)]
  /\ UNCHANGED <<webVars, applies, engine, projects, timers, pidWrap>>

GetFreePortReturn ==
  /\ alloc.pc = "done"
  /\ alloc' = [alloc EXCEPT !.pc = "idle"]
  /\ UNCHANGED <<webVars, applies, engine, projects, timers, pidWrap>>

(* spawnDev: npm run dev in cwd; npm forks the dev server as a subprocess. *)
spawnDev(pt, pid, cwd, port) ==
  Put(pt, pid, [cwd |-> cwd, port |-> port, npm |-> TRUE,
                srv |-> "boot", sig |-> {}])

(* The pid the OS gives the next child: one that no process holds. The   *)
(* OS hands pids out in ascending order, so until its counter wraps the   *)
(* pid is also one that neither a session nor a launch in flight still    *)
(* refers to; after the wrap the pid of an exited process may come back.  *)
UsedPids ==
  (DOMAIN procs) \cup
    (IF pidWrap THEN {}
     ELSE {previewSessions[id].childPid : id \in DOMAIN previewSessions}
            \cup {reqs[r].child : r \in Slots}
            \cup {s.childPid : s \in stopping})
FreePids == Pids \ UsedPids
NewPid == CHOOSE p \in FreePids : \A q \in FreePids : p <= q

(* Dev servers whose npm parent was killed and that are still running. *)
Orphans(pt) == {pid \in DOMAIN pt : ~pt[pid].npm}

(* process.kill(pid, "SIGTERM") inside try/catch: the signal goes to the  *)
(* one pid, the npm process, which ends; the dev server npm forked gets   *)
(* no signal and runs on as an orphan (beyond MaxOrphans of them it is    *)
(* taken to end with its parent). A pid that no longer runs makes kill    *)
(* throw, which is caught.                                                *)
killTargets == {"npm"}
kill(pt, pid) ==
  IF pid \in DOMAIN pt /\ pt[pid].npm
  THEN IF "srv" \notin killTargets /\ Cardinality(Orphans(pt)) < MaxOrphans
       THEN [pt EXCEPT ![pid].npm = FALSE, ![pid].sig = @ \cup killTargets]
       ELSE Remove(pt, pid)
  ELSE pt

(* waitForOkAny(http://127.0.0.1:port): some server answers 2xx on port. *)
waitForOkAny(pt, port) == PortBound(pt, port)

(* The health prober at rest: no call of waitForOkAny is being followed. *)
IdleProbe == [pc |-> "idle", totalMs |-> 0, backend |-> "none", elapsed |-> 0,
              roundAt |-> 0, path |-> 0, method |-> "HEAD", okAt |-> 0 - 1,
              last |-> 0, result |-> FALSE]

(* An apply request at rest. *)
IdleApply == [pc |-> "idle", sessionId |-> 0, tempDir |-> 0, plan |-> FALSE,
              fixes |-> FALSE, resultId |-> 0]

(* The engine's app before its first request: the projects as they were  *)
(* put on disk, no response sent.                                         *)
NoEngineResponse ==
  [status |-> 0, ok |-> FALSE, dryRun |-> "undefined", plan |-> << >>,
   result |-> FALSE, error |-> "none"]
NoBody == [projectPath |-> "", plan |-> [isArray |-> FALSE, steps |-> << >>],
           dryRun |-> "undefined", options |-> [dryRun |-> "undefined", to |-> "none"]]
EngineStart ==
  [disk |-> {}, body |-> NoBody, invoked |-> FALSE, res |-> NoEngineResponse]

(* ---------------- initial state ---------------- *)
Init ==
  /\ now = 0
  /\ lastSweep = 0
  /\ nextUuid = 1
  /\ dirs = {}
  /\ procs = << >>
  /\ previewSessions = << >>
  /\ planSessions = << >>
  /\ diagnoseSessions = << >>
  /\ migrationResults = << >>
  /\ reqs = [r \in Slots |-> IdleReq]
  /\ stopping = {}
  /\ handedOut = {}
  /\ resp = NoResp
  /\ alive = TRUE
  /\ probe = IdleProbe
  /\ applies = [a \in Slots |-> IdleApply]
  /\ engine = EngineStart
  /\ projects = << >>
  /\ timers = << >>
  /\ alloc = IdleAlloc
  /\ pidWrap = FALSE


(* ---------------- POST /api/preview/start, /api/preview/zip ---------------- *)
(* The handler up to the install: validate, create the temp dir, extract. *)
StartBegin(r, outcome, fw) ==
  /\ alive
  /\ reqs[r].pc = "idle"
  /\ \A q \in Slots : q < r => reqs[q].pc # "idle"
  /\ nextUuid + Cardinality(InFlight) + 1 <= MaxUuid
  /\ CASE outcome = "noid" ->
            /\ resp' = ErrorResponse("start", 0, 400, "resultId is required")
            /\ UNCHANGED <<nextUuid, dirs, reqs>>
       [] outcome = "nozip" ->
            /\ resp' = ErrorResponse("start", 0, 404, "result zip not found")
            /\ UNCHANGED <<nextUuid, dirs, reqs>>
       [] outcome = "badzip" ->
            /\ nextUuid' = nextUuid + 1
            /\ dirs' = dirs \cup {uuidv4}
            /\ resp' = ErrorResponse("start", uuidv4, 500, "Failed to start preview")
            /\ UNCHANGED reqs
       [] outcome = "nopkg" ->
            /\ nextUuid' = nextUuid + 1
            /\ dirs' = dirs \cup {uuidv4}
            /\ reqs' = [reqs EXCEPT ![r] = [IdleReq EXCEPT !.pc = "alloc",
                                  !.tempDir = uuidv4, !.fw = "unknown"]]
            /\ resp' = NoResp
       [] outcome = "ok" ->
            /\ nextUuid' = nextUuid + 1
            /\ dirs' = dirs \cup {uuidv4}
            /\ reqs' = [reqs EXCEPT ![r] = [IdleReq EXCEPT !.pc = "install",
                                  !.tempDir = uuidv4, !.fw = fw]]
            /\ resp' = NoResp
  /\ UNCHANGED <<applies, engine, projects, timers, alloc, pidWrap, alive, probe, now, lastSweep, procs, previewSessions, planSessions,
                 diagnoseSessions, migrationResults, stopping, handedOut>>

(* p.on("exit", () => resolve()): the exit code is not looked at. *)
installExited(q, code) == [q EXCEPT !.pc = "alloc", !.installExit = code]

(* npm i has exited with code 0: the launcher is entered. *)
Install(r) ==
  /\ alive
  /\ reqs[r].pc = "install"
  /\ reqs' = [reqs EXCEPT ![r] = installExited(reqs[r], 0)]
  /\ resp' = NoResp
  /\ UNCHANGED <<applies, engine, projects, timers, alloc, pidWrap, alive, probe, now, lastSweep, nextUuid, dirs, procs,
                 previewSessions, planSessions, diagnoseSessions,
                 migrationResults, stopping, handedOut>>

(* npm i has exited with a failure code. *)
InstallFailed(r) ==
  /\ alive
  /\ reqs[r].pc = "install"
  /\ reqs' = [reqs EXCEPT ![r] = installExited(reqs[r], 1)]
  /\ resp' = NoResp
  /\ UNCHANGED <<applies, engine, projects, timers, alloc, pidWrap, alive, probe, now, lastSweep, nextUuid, dirs, procs,
                 previewSessions, planSessions, diagnoseSessions,
                 migrationResults, stopping, handedOut>>

(* The client closes the connection while the handler is still working;   *)
(* the handler listens to no close or aborted event of the request.       *)
ClientAbort(r) ==
  /\ alive
  /\ reqs[r].pc # "idle"
  /\ ~reqs[r].aborted
  /\ reqs' = [reqs EXCEPT ![r].aborted = TRUE]
  /\ resp' = NoResp
  /\ UNCHANGED <<applies, engine, projects, timers, alloc, pidWrap, alive, probe, now, lastSweep, nextUuid, dirs, procs,
                 previewSessions, planSessions, diagnoseSessions,
                 migrationResults, stopping, handedOut>>

(* The handler's catch block: 500 with the error message. *)
StartFailed(r, error) ==
  /\ reqs' = [reqs EXCEPT ![r] = IdleReq]
  /\ resp' = ErrorResponse("start", reqs[r].tempDir, 500, error)

(* spawnDevServerWithRetry: head of the attempt loop. getFreePort, then  *)
(* the first strategy of the attempt is spawned without an await between. *)
LaunchAttempt(r) ==
  /\ alive
  /\ reqs[r].pc = "alloc"
  /\ IF reqs[r].attempt >= maxRetry \/ ~HasFreePort(procs)
     THEN /\ StartFailed(r, IF reqs[r].attempt >= maxRetry
                             THEN "Failed to start dev server"
                             ELSE "No free port found")
          /\ UNCHANGED procs
     ELSE /\ FreePids # {}
          /\ procs' = spawnDev(procs, NewPid, reqs[r].tempDir,
                               getFreePort(procs))
          /\ reqs' = [reqs EXCEPT ![r].pc = "probe", ![r].t = 1,
                           ![r].port = getFreePort(procs), ![r].child = NewPid,
                           ![r].spawned = @ + 1]
          /\ resp' = NoResp
  /\ UNCHANGED <<applies, engine, projects, timers, alloc, pidWrap, alive, probe, now, lastSweep, nextUuid, dirs, previewSessions, planSessions,
                 diagnoseSessions, migrationResults, stopping, handedOut>>

(* The launcher is about to spawn and the command cannot be executed     *)
(* (ENOENT, EACCES): spawn() emits 'error' on the ChildProcess, spawnDev  *)
(* attaches no listener, so the unhandled event ends the Node process     *)
(* and the request is never answered.                                     *)
LaunchSpawnError(r) ==
  /\ alive
  /\ \/ reqs[r].pc = "alloc" /\ reqs[r].attempt < maxRetry /\ HasFreePort(procs)
     \/ reqs[r].pc = "sleep" /\ reqs[r].t < Len(tries(reqs[r].fw))
  /\ alive' = FALSE
  /\ resp' = NoResp
  /\ UNCHANGED reqs
  /\ UNCHANGED <<applies, engine, projects, timers, alloc, pidWrap, probe, now, lastSweep, nextUuid, dirs, procs, previewSessions,
                 planSessions, diagnoseSessions, migrationResults, stopping,
                 handedOut>>

(* waitForOkAny answered true: the launcher returns {child, port}; the    *)
(* handler registers the session and sends the preview response.          *)
NewSession(id, port, tempDir, childPid) ==
  [id |-> id, port |-> port, tempDir |-> tempDir, childPid |-> childPid,
   startedAt |-> now]

LaunchHealthy(r) ==
  /\ alive
  /\ reqs[r].pc = "probe"
  /\ waitForOkAny(procs, reqs[r].port)
  /\ previewSessions' = Put(previewSessions, uuidv4,
        NewSession(uuidv4, reqs[r].port, reqs[r].tempDir, reqs[r].child))
  /\ nextUuid' = nextUuid + 1
  /\ resp' = sendPreviewOk(uuidv4, reqs[r].port)
  /\ handedOut' = handedOut \cup {uuidv4}
  /\ reqs' = [reqs EXCEPT ![r] = IdleReq]
  /\ UNCHANGED <<applies, engine, projects, timers, alloc, pidWrap, alive, probe, now, lastSweep, dirs, procs, planSessions,
                 diagnoseSessions, migrationResults, stopping>>

(* waitForOkAny ran out of budget: the child is killed, then a 300ms sleep; *)
(* the loop iteration's child handle is not used again.                    *)
(* A launcher that leaves the unhealthy child running. *)
killFailedChildSkipped(pt, pid) == pt

killFailedChild(pt, pid) == kill(pt, pid)

LaunchUnhealthy(r) ==
  /\ alive
  /\ reqs[r].pc = "probe"
  /\ ~waitForOkAny(procs, reqs[r].port)
  /\ procs' = killFailedChild(procs, reqs[r].child)
  /\ reqs' = [reqs EXCEPT ![r].pc = "sleep", ![r].child = 0]
  /\ resp' = NoResp
  /\ UNCHANGED <<applies, engine, projects, timers, alloc, pidWrap, alive, probe, now, lastSweep, nextUuid, dirs, previewSessions,
                 planSessions, diagnoseSessions, migrationResults, stopping, handedOut>>

(* After the sleep: the next strategy of this attempt on the same port,   *)
(* or the next attempt.                                                   *)
LaunchRetry(r) ==
  /\ alive
  /\ reqs[r].pc = "sleep"
  /\ IF reqs[r].t < Len(tries(reqs[r].fw))
     THEN /\ FreePids # {}
          /\ procs' = spawnDev(procs, NewPid, reqs[r].tempDir, reqs[r].port)
          /\ reqs' = [reqs EXCEPT ![r].pc = "probe", ![r].t = @ + 1,
                                  ![r].child = NewPid, ![r].spawned = @ + 1]
     ELSE /\ reqs' = [reqs EXCEPT ![r].pc = "alloc", ![r].attempt = @ + 1]
          /\ UNCHANGED procs
  /\ resp' = NoResp
  /\ UNCHANGED <<applies, engine, projects, timers, alloc, pidWrap, alive, probe, now, lastSweep, nextUuid, dirs, previewSessions, planSessions,
                 diagnoseSessions, migrationResults, stopping, handedOut>>

(* ---------------- the child processes ---------------- *)
(* The OS's pid counter reaches its maximum and starts again from the low *)
(* pids.                                                                  *)
PidWrap ==
  /\ ~pidWrap
  /\ pidWrap' = TRUE
  /\ resp' = NoResp
  /\ UNCHANGED <<applies, engine, projects, timers, alloc, alive, probe, now, lastSweep,
                 nextUuid, dirs, procs, previewSessions, planSessions,
                 diagnoseSessions, migrationResults, reqs, stopping, handedOut>>

(* The dev server of a child binds its port; when the port is taken the   *)
(* bind fails and the child exits.                                        *)
ChildBind(pid) ==
  /\ pid \in DOMAIN procs
  /\ procs[pid].srv = "boot"
  /\ procs' = IF PortBound(procs, procs[pid].port)
              THEN Remove(procs, pid)
              ELSE [procs EXCEPT ![pid].srv = "listen"]
  /\ resp' = NoResp
  /\ UNCHANGED <<applies, engine, projects, timers, alloc, pidWrap, alive, probe, now, lastSweep, nextUuid, dirs, previewSessions,
                 planSessions, diagnoseSessions, migrationResults, reqs,
                 stopping, handedOut>>

(* A child and its subprocess exit on their own (crash, failed start, or  *)
(* an orphaned dev server ending).                                        *)
ChildExit(pid) ==
  /\ pid \in DOMAIN procs
  /\ procs' = Remove(procs, pid)
  /\ resp' = NoResp
  /\ UNCHANGED <<applies, engine, projects, timers, alloc, pidWrap, alive, probe, now, lastSweep, nextUuid, dirs, previewSessions,
                 planSessions, diagnoseSessions, migrationResults, reqs,
                 stopping, handedOut>>


(* ---------------- DELETE /api/preview/:id ---------------- *)
(* A stop that answers ok for an id the registry does not hold. *)
stopMissingOk(id) == Response("stop", id, 200, 0, NoPath, TRUE)

(* if (!sess) return res.status(404) *)
stopMissing(id) == ErrorResponse("stop", id, 404, "Preview not found")

(* A stop that leaves the registry entry in place. *)
deleteSessionSkipped(ps, id) == ps

(* previewSessions.delete(id) *)
deleteSession(ps, id) == Remove(ps, id)

(* process.kill throws (ESRCH) when no process has the pid any more. *)
killThrows(pt, pid) == ~(pid \in DOMAIN pt /\ pt[pid].npm)

(* A stop whose kill is not wrapped: a throwing kill ends the handler. *)
stopGoesOnUnlessKillThrows(pt, pid) == ~killThrows(pt, pid)

(* try { process.kill(...) } catch {}: the handler goes on either way. *)
stopGoesOn(pt, pid) == TRUE

(* Lookup, kill, registry delete; then the handler awaits fs.remove. *)
StopBegin(id) ==
  /\ alive
  /\ IF id \notin DOMAIN previewSessions
     THEN /\ resp' = stopMissing(id)
          /\ UNCHANGED <<procs, previewSessions, stopping>>
     ELSE IF ~stopGoesOn(procs, previewSessions[id].childPid)
     THEN /\ resp' = ErrorResponse("stop", id, 500, "kill ESRCH")
          /\ UNCHANGED <<procs, previewSessions, stopping>>
     ELSE /\ procs' = kill(procs, previewSessions[id].childPid)
          /\ previewSessions' = deleteSession(previewSessions, id)
          /\ stopping' = stopping \cup
                {[id |-> id, port |-> previewSessions[id].port,
                  tempDir |-> previewSessions[id].tempDir,
                  childPid |-> previewSessions[id].childPid,
                  startedAt |-> previewSessions[id].startedAt,
                  killThrew |-> killThrows(procs, previewSessions[id].childPid)]}
          /\ resp' = NoResp
  /\ UNCHANGED <<applies, engine, projects, timers, alloc, pidWrap, alive, probe, now, lastSweep, nextUuid, dirs, planSessions,
                 diagnoseSessions, migrationResults, reqs, handedOut>>

(* fs.remove(tempDir) is done: the handler answers ok. *)
StopFinish(s) ==
  /\ alive
  /\ s \in stopping
  /\ dirs' = dirs \ {s.tempDir}
  /\ stopping' = stopping \ {s}
  /\ resp' = Response("stop", s.id, 200, 0, NoPath, TRUE)
  /\ UNCHANGED <<applies, engine, projects, timers, alloc, pidWrap, alive, probe, now, lastSweep, nextUuid, procs, previewSessions,
                 planSessions, diagnoseSessions, migrationResults, reqs, handedOut>>

(* ---------------- GET /api/preview/:id/health ---------------- *)
Health(id) ==
  /\ alive
  /\ resp' = IF id \notin DOMAIN previewSessions
             THEN ErrorResponse("health", id, 404, "Preview not found")
             ELSE Response("health", id, 200, previewSessions[id].port, NoPath,
                           waitForOkAny(procs, previewSessions[id].port))
  /\ UNCHANGED <<applies, engine, projects, timers, alloc, pidWrap, alive, probe, now, lastSweep, nextUuid, dirs, procs,
                 previewSessions, planSessions, diagnoseSessions,
                 migrationResults, reqs, stopping, handedOut>>

(* ---------------- the preview proxy ---------------- *)
(* A request path is a sequence of tokens; /preview/<id><rest> is the     *)
(* token "/preview/", the id, then the tokens of rest.                    *)
Prefix(id) == << "/preview/", id >>
StartsWith(path, prefix) ==
  /\ Len(path) >= Len(prefix)
  /\ SubSeq(path, 1, Len(prefix)) = prefix
Slice(path, n) == SubSeq(path, n + 1, Len(path))

(* /^\/(@vite|src|node_modules|__vite_ping)/.test(req.path) *)
AbsAssetTokens == {"/@vite", "/src", "/node_modules", "/__vite_ping"}
absAsset(path) == Len(path) >= 1 /\ path[1] \in AbsAssetTokens

(* pathRewrite of the /preview/:id proxy *)
pathRewrite(path, prefix) ==
  IF StartsWith(path, prefix)
  THEN (IF Slice(path, Len(prefix)) = << >> THEN << "/" >>
        ELSE Slice(path, Len(prefix)))
  ELSE path

(* The mount "/preview/:id" matches. *)
MountMatches(path) == Len(path) >= 2 /\ path[1] = "/preview/"

(* The Referer middleware; NoReferer when the header names no session. *)
NoReferer == 0 - 1
RefererHandlesAnyPath(path, ref) == ref # NoReferer
RefererHandles(path, ref) == ref # NoReferer /\ absAsset(path)
refererProxyUnchecked(path, ref) ==
  Response("referer", ref, 0,
           IF ref \in DOMAIN previewSessions THEN previewSessions[ref].port ELSE 0,
           path, TRUE)

refererProxy(path, ref) ==
  IF ref \notin DOMAIN previewSessions
  THEN ErrorResponse("referer", ref, 404, "Preview session not found")
  ELSE Response("referer", ref, 0, previewSessions[ref].port, path, TRUE)

(* The /preview/:id middleware followed by the proxy (router + rewrite). *)
previewTarget(id) == previewSessions[id].port
prefixProxy(path) ==
  LET id == path[2] IN
  IF id \notin DOMAIN previewSessions
  THEN ErrorResponse("prefix", id, 404, "Preview not found or stopped")
  ELSE Response("prefix", id, 0, previewTarget(id),
                pathRewrite(path, Prefix(id)), TRUE)

route(path, ref) ==
  IF RefererHandles(path, ref) THEN refererProxy(path, ref)
  ELSE IF MountMatches(path) THEN prefixProxy(path)
  ELSE Response("pass", 0, 404, 0, NoPath, FALSE)

Rests == { << >>, << "/" >>, << "/src" >> }
Referers == {NoReferer} \cup ClientIds
RouteInputs ==
  {<< Prefix(id) \o rest, NoReferer >> : id \in ClientIds, rest \in Rests}
    \cup {<< Prefix(id) \o << "/src" >>, ref >> : id \in ClientIds, ref \in ClientIds}
    \cup {<< << "/src", "/main" >>, ref >> : ref \in Referers}
    \cup {<< << "/@vite" >>, ref >> : ref \in Referers}
    \cup {<< << "/other" >>, ref >> : ref \in {NoReferer, UnknownId}}

ProxyRequest(path, ref) ==
  /\ alive
  /\ resp' = route(path, ref)
  /\ UNCHANGED <<applies, engine, projects, timers, alloc, pidWrap, alive, probe, now, lastSweep, nextUuid, dirs, procs,
                 previewSessions, planSessions, diagnoseSessions,
                 migrationResults, reqs, stopping, handedOut>>

(* ---------------- the clock and the cleanup sweep ---------------- *)
Expired(store) == {k \in DOMAIN store : now - store[k].timestamp > CLEANUP_INTERVAL}
Keep(store) == [k \in (DOMAIN store) \ Expired(store) |-> store[k]]

SweepDue == now - lastSweep >= CLEANUP_INTERVAL

Tick ==
  /\ now < MaxTicks * TickMs
  /\ ~SweepDue
  /\ now' = now + TickMs
  /\ resp' = NoResp
  /\ UNCHANGED <<applies, engine, projects, timers, alloc, pidWrap, alive, probe, lastSweep, nextUuid, dirs, procs, previewSessions,
                 planSessions, diagnoseSessions, migrationResults, reqs,
                 stopping, handedOut>>

(* The setInterval callback: it sweeps migrationResults, planSessions and *)
(* diagnoseSessions.                                                      *)
CleanupSweep ==
  /\ alive
  /\ SweepDue
  /\ lastSweep' = now
  /\ migrationResults' = Keep(migrationResults)
  /\ planSessions' = Keep(planSessions)
  /\ diagnoseSessions' = Keep(diagnoseSessions)
  /\ dirs' = dirs \ ( {migrationResults[k].zipPath : k \in Expired(migrationResults)}
                 \cup {planSessions[k].tempDir : k \in Expired(planSessions)}
                 \cup {diagnoseSessions[k].tempDir : k \in Expired(diagnoseSessions)} )
  /\ resp' = NoResp
  /\ UNCHANGED <<applies, engine, projects, timers, alloc, pidWrap, alive, probe, now, nextUuid, procs, previewSessions, reqs, stopping,
                 handedOut>>

(* ---------------- the health prober, ping by ping ---------------- *)
(* Time is counted in units of intervalMs. A ping is aborted after        *)
(* min(2000, intervalMs), so it takes between no time and one unit; the   *)
(* sleep between two rounds takes one unit.                               *)
serverVars == <<now, lastSweep, nextUuid, dirs, procs, previewSessions,
                planSessions, diagnoseSessions, migrationResults, reqs,
                stopping, handedOut, resp, alive, applies, engine, projects,
                timers, alloc, pidWrap>>

Backends == {"stub200", "stub500", "closed", "flaky"}
(* The status a ping can see; 0 stands for no response (refused, aborted). *)
Statuses(backend) ==
  CASE backend = "stub200" -> {200}
    [] backend = "stub500" -> {500}
    [] backend = "closed"  -> {0}
    [] OTHER               -> {0, 204, 404, 500}
PingTimes == {0, 1}

(* A prober that takes any answer for a success. *)
responseOkAnyAnswer(status) == status # 0

(* r.ok of fetch: the status is in the 2xx range. *)
responseOk(status) == status >= 200 /\ status <= 299

(* waitForOkAny(base, totalMs, intervalMs) is called: t0 = Date.now(). *)
ProbeCall(totalMs, backend) ==
  /\ probe.pc = "idle"
  /\ probe' = [IdleProbe EXCEPT !.pc = "loop", !.totalMs = totalMs,
                                !.backend = backend]
  /\ UNCHANGED serverVars

(* while (Date.now() - t0 < totalMs): a round over the paths begins, or   *)
(* the prober returns false.                                              *)
ProbeLoop ==
  /\ probe.pc = "loop"
  /\ probe' = IF probe.elapsed < probe.totalMs
              THEN [probe EXCEPT !.pc = "ping", !.path = 1, !.method = "HEAD",
                                 !.roundAt = probe.elapsed]
              ELSE [probe EXCEPT !.pc = "done", !.result = FALSE]
  /\ UNCHANGED serverVars

(* One ping: HEAD first, then GET, for each path in turn; the first ok    *)
(* response returns true.                                                 *)
Ping(status, d) ==
  /\ probe.pc = "ping"
  /\ status \in Statuses(probe.backend)
  /\ probe' =
       IF responseOk(status)
       THEN [probe EXCEPT !.pc = "done", !.result = TRUE, !.last = status,
                          !.elapsed = @ + d, !.okAt = probe.elapsed + d]
       ELSE IF probe.method = "HEAD"
       THEN [probe EXCEPT !.method = "GET", !.last = status, !.elapsed = @ + d]
       ELSE IF probe.path < NumPaths
       THEN [probe EXCEPT !.method = "HEAD", !.path = @ + 1, !.last = status,
                          !.elapsed = @ + d]
       ELSE [probe EXCEPT !.pc = "sleep", !.last = status, !.elapsed = @ + d]
  /\ UNCHANGED serverVars

(* await new Promise((r) => setTimeout(r, intervalMs)) *)
ProbeSleep ==
  /\ probe.pc = "sleep"
  /\ probe' = [probe EXCEPT !.pc = "loop", !.elapsed = @ + 1]
  /\ UNCHANGED serverVars

(* The caller has the prober's answer. *)
ProbeReturn ==
  /\ probe.pc = "done"
  /\ probe' = IdleProbe
  /\ UNCHANGED serverVars

(* ---------------- POST /api/plan, POST /api/diagnose ---------------- *)
NewPlanSession(tempDir, plan) ==
  [tempDir |-> tempDir, timestamp |-> now, plan |-> plan]

Plan(outcome) ==
  /\ alive
  /\ nextUuid + Cardinality(InFlight) + 1 <= MaxUuid
  /\ CASE outcome = "nofile" ->
            /\ resp' = ErrorResponse("plan", 0, 400, "No file uploaded")
            /\ UNCHANGED <<nextUuid, dirs, planSessions>>
       [] outcome = "badzip" ->
            /\ nextUuid' = nextUuid + 1
            /\ dirs' = dirs \cup {nextUuid}
            /\ resp' = ErrorResponse("plan", 0, 500, "Failed to generate migration plan")
            /\ UNCHANGED planSessions
       [] outcome = "ok" ->
            /\ nextUuid' = nextUuid + 2
            /\ dirs' = dirs \cup {nextUuid}
            /\ planSessions' = Put(planSessions, nextUuid + 1,
                                   NewPlanSession(nextUuid, TRUE))
            /\ resp' = Response("plan", nextUuid + 1, 200, 0, NoPath, TRUE)
  /\ UNCHANGED <<applies, engine, projects, timers, alloc, pidWrap, alive, probe, now, lastSweep, procs, previewSessions, diagnoseSessions,
                 migrationResults, reqs, stopping, handedOut>>

Diagnose(outcome) ==
  /\ alive
  /\ nextUuid + Cardinality(InFlight) + 1 <= MaxUuid
  /\ CASE outcome = "nofile" ->
            /\ resp' = ErrorResponse("diagnose", 0, 400, "No file uploaded")
            /\ UNCHANGED <<nextUuid, dirs, diagnoseSessions>>
       [] outcome = "badzip" ->
            /\ nextUuid' = nextUuid + 1
            /\ dirs' = dirs \cup {nextUuid}
            /\ resp' = ErrorResponse("diagnose", 0, 500, "Failed to diagnose project")
            /\ UNCHANGED diagnoseSessions
       [] outcome = "ok" ->
            /\ nextUuid' = nextUuid + 2
            /\ dirs' = dirs \cup {nextUuid}
            /\ diagnoseSessions' = Put(diagnoseSessions, nextUuid + 1,
                                       NewPlanSession(nextUuid, FALSE))
            /\ resp' = Response("diagnose", nextUuid + 1, 200, 0, NoPath, TRUE)
  /\ UNCHANGED <<applies, engine, projects, timers, alloc, pidWrap, alive, probe, now, lastSweep, procs, previewSessions, planSessions,
                 migrationResults, reqs, stopping, handedOut>>

(* ---------------- POST /api/apply/:sessionId? ---------------- *)
(* Requests in session mode (no project file attached). The handler runs *)
(* up to its first await in one step: it looks the session up in         *)
(* planSessions, then diagnoseSessions, and answers 400 when there is    *)
(* none, or when the request names no session at all (sid 0).            *)
NoSession == 0
sessionLookup(sid) ==
  IF sid \in DOMAIN planSessions THEN planSessions[sid]
  ELSE diagnoseSessions[sid]

ApplyBegin(a, sid, fixes) ==
  /\ alive
  /\ applies[a].pc = "idle"
  /\ IF sid = NoSession
     THEN /\ resp' = ErrorResponse("apply", sid, 400, "Missing sessionId or project file")
          /\ UNCHANGED applies
     ELSE IF sid \notin (DOMAIN planSessions) \cup (DOMAIN diagnoseSessions)
     THEN /\ resp' = ErrorResponse("apply", sid, 400, "Invalid or expired sessionId")
          /\ UNCHANGED applies
     ELSE /\ applies' = [applies EXCEPT ![a] =
               [pc |-> "apply", sessionId |-> sid,
                tempDir |-> sessionLookup(sid).tempDir,
                plan |-> sessionLookup(sid).plan, fixes |-> fixes,
                resultId |-> 0]]
          /\ resp' = NoResp
  /\ UNCHANGED <<webVarsButResp, engine, projects, timers, alloc, pidWrap>>

(* await applyMigration / applyPatches: with a plan, or with fixes        *)
(* selected, files are written under projectRoot, and ensureDir creates   *)
(* the directory again when it is gone; otherwise nothing is written.     *)
ApplyRun(a) ==
  /\ alive
  /\ applies[a].pc = "apply"
  /\ dirs' = IF applies[a].plan \/ applies[a].fixes
             THEN dirs \cup {applies[a].tempDir} ELSE dirs
  /\ applies' = [applies EXCEPT ![a].pc = "zip"]
  /\ resp' = NoResp
  /\ UNCHANGED <<engine, projects, timers, alloc, pidWrap, alive, probe, now, lastSweep,
                 nextUuid, procs, previewSessions, planSessions,
                 diagnoseSessions, migrationResults, reqs, stopping, handedOut>>

(* await zipDirectory(projectRoot): a new result id, the server folder    *)
(* made under projectRoot when it is missing, the archive written and     *)
(* entered in migrationResults.                                           *)
ApplyZip(a) ==
  /\ alive
  /\ applies[a].pc = "zip"
  /\ nextUuid <= MaxUuid
  /\ nextUuid' = nextUuid + 1
  /\ dirs' = dirs \cup {applies[a].tempDir, uuidv4}
  /\ migrationResults' = Put(migrationResults, uuidv4,
                             [zipPath |-> uuidv4, timestamp |-> now])
  /\ applies' = [applies EXCEPT ![a].pc = "remove", ![a].resultId = uuidv4]
  /\ resp' = NoResp
  /\ UNCHANGED <<engine, projects, timers, alloc, pidWrap, alive, probe, now, lastSweep,
                 procs, previewSessions, planSessions, diagnoseSessions, reqs,
                 stopping, handedOut>>

(* await fs.remove(tempDir) has ended: the session is deleted from both   *)
(* stores and the result id is answered.                                  *)
consumeSession(store, sid) ==
  IF sid \in DOMAIN store THEN Remove(store, sid) ELSE store

ApplyFinish(a) ==
  /\ alive
  /\ applies[a].pc = "remove"
  /\ dirs' = dirs \ {applies[a].tempDir}
  /\ planSessions' = consumeSession(planSessions, applies[a].sessionId)
  /\ diagnoseSessions' = consumeSession(diagnoseSessions, applies[a].sessionId)
  /\ resp' = Response("apply", applies[a].resultId, 200, 0, NoPath, TRUE)
  /\ applies' = [applies EXCEPT ![a] = IdleApply]
  /\ UNCHANGED <<engine, projects, timers, alloc, pidWrap, alive, probe, now, lastSweep,
                 nextUuid, procs, previewSessions, migrationResults, reqs,
                 stopping, handedOut>>

(* An awaited step throws (a write fails): the catch block answers 500;   *)
(* the session and its temp directory stay.                               *)
ApplyFailed(a) ==
  /\ alive
  /\ applies[a].pc \in {"apply", "zip"}
  /\ resp' = ErrorResponse("apply", applies[a].sessionId, 500, "Failed to apply plan")
  /\ applies' = [applies EXCEPT ![a] = IdleApply]
  /\ UNCHANGED <<webVarsButResp, engine, projects, timers, alloc, pidWrap>>

(* ---------------- packages/engine: POST /api/apply ---------------- *)
(* The engine's own Express app, mounted without allowedRootDir. A plan   *)
(* step is written by the name of its target; the disk is the set of      *)
(* <<project, target>> files that applyPlan has written.                  *)
EngineProjects == {"vite", "plain"}       \* project roots that exist
ProjectPaths == {"", "gone"} \cup EngineProjects
JsonBools == {"undefined", "true", "false"}
NoPlan == [isArray |-> FALSE, steps |-> << >>]
ClientPlans ==
  {NoPlan} \cup {[isArray |-> TRUE, steps |-> st] :
                   st \in {<< >>, <<".gitignore">>, <<"package.json">>}}
(* Requests without a deployment target in options.to. *)
ApplyRequestBody ==
  [projectPath : ProjectPaths, plan : ClientPlans, dryRun : JsonBools,
   options : [dryRun : JsonBools, to : {"none"}]]

EngineError(status, error) ==
  [status |-> status, ok |-> FALSE, dryRun |-> "undefined", plan |-> << >>,
   result |-> FALSE, error |-> error]
EngineOk(dryRun, steps) ==
  [status |-> 200, ok |-> TRUE, dryRun |-> dryRun, plan |-> steps,
   result |-> (dryRun = "false"), error |-> "none"]

isValidPlan(p) == p.isArray

detect(disk, root) ==
  [framework |-> IF root = "vite" THEN "vite" ELSE "unknown",
   hasPackageJson |-> (root = "vite"),
   scriptsChanged |-> (<<root, "package.json">> \notin disk),
   projectPath |-> root]

planUpdatePackageJsonScripts(d) ==
  IF d.scriptsChanged THEN <<"package.json">> ELSE << >>

plan(d, opts) ==
  <<".gitignore", ".vscode/settings.json">>
    \o (IF d.hasPackageJson /\ d.framework \in {"nextjs", "vite"}
        THEN planUpdatePackageJsonScripts(d) ELSE << >>)
    \o (IF opts.to = "docker" THEN <<"Dockerfile">> ELSE << >>)

(* The files the first k steps of a plan write. The generated step for    *)
(* package.json carries its content; a client's step without content      *)
(* falls back to editing a package.json that exists.                      *)
applyPlan(disk, root, steps, k) ==
  disk \cup {<<root, steps[i]>> : i \in {j \in 1..k :
               steps[j] = "package.json" => root = "vite"}}

wantDryRunBodyOnly(body) == body.dryRun = "true"
wantDryRun(body) == body.dryRun = "true" \/ body.options.dryRun = "true"

planToApply(disk, body) ==
  IF isValidPlan(body.plan) THEN body.plan.steps
  ELSE plan(detect(disk, body.projectPath), body.options)

(* One request; engine.body keeps it next to its response. detectThrows   *)
(* and planThrows are the failures of the injected functions; applyFn     *)
(* completes some of the steps before it throws, or all of them.          *)
EngineApply(body, detectThrows, planThrows) ==
  LET steps == planToApply(engine.disk, body)
      answer(res) ==
        engine' = [engine EXCEPT !.body = body, !.res = res, !.invoked = FALSE]
  IN
  /\ IF body.projectPath = ""
     THEN answer(EngineError(400, "projectPath (string) required"))
     ELSE IF body.projectPath \notin EngineProjects
     THEN answer(EngineError(404, "Path not found"))
     ELSE IF detectThrows
     THEN answer(EngineError(500, "detect failed"))
     ELSE IF ~isValidPlan(body.plan) /\ planThrows
     THEN answer(EngineError(500, "plan failed"))
     ELSE IF Len(steps) = 0
     THEN answer(EngineError(400, "No steps to apply"))
     ELSE IF wantDryRun(body)
     THEN answer(EngineOk("true", steps))
     ELSE \E done \in 0..Len(steps) :
            engine' =
              [disk |-> applyPlan(engine.disk, body.projectPath, steps, done),
               body |-> body,
               invoked |-> TRUE,
               res |-> IF done = Len(steps) THEN EngineOk("false", steps)
                       ELSE EngineError(500, "apply failed")]
  /\ UNCHANGED <<webVars, applies, projects, timers, alloc, pidWrap>>

(* ---------------- apps/server: the demo API server ---------------- *)
(* projects is the Map of PState, with the log of each project; timers    *)
(* counts the setTimeout callbacks of verify that have not run yet. The   *)
(* GET routes (status, logs, download, health) change nothing.            *)
ProjectIds == 1..MaxProjects
UnknownProject == 0
uuid == Cardinality(DOMAIN projects) + 1

(* handleUpload: 400 without a file, 500 when the rename throws. *)
handleUpload(hasFile, renameOk) ==
  /\ uuid \in ProjectIds
  /\ IF hasFile /\ renameOk
     THEN /\ projects' = Put(projects, uuid,
                             [id |-> uuid, status |-> "uploaded",
                              log |-> << "uploaded" >>, outZip |-> FALSE])
          /\ timers' = Put(timers, uuid, 0)
     ELSE UNCHANGED <<projects, timers>>
  /\ UNCHANGED <<webVars, applies, engine, alloc, pidWrap>>

(* POST /api/projects/:id/verify *)
startsBuildAlways(status) == TRUE
startsBuild(status) == status \in {"uploaded", "failed"}

Verify(id) ==
  /\ IF id \notin DOMAIN projects
     THEN UNCHANGED <<projects, timers>>
     ELSE /\ Len(projects[id].log) < MaxLog
          /\ IF startsBuild(projects[id].status)
             THEN /\ projects' = [projects EXCEPT
                                    ![id].status = "building",
                                    ![id].log = Append(@, "verification started")]
                  /\ timers' = [timers EXCEPT ![id] = @ + 1]
             ELSE UNCHANGED <<projects, timers>>
  /\ UNCHANGED <<webVars, applies, engine, alloc, pidWrap>>

(* The setTimeout callback, 3 s after the verify: the try block ends in   *)
(* ready, its catch in failed.                                            *)
BuildTimer(id, ok) ==
  /\ id \in DOMAIN projects
  /\ timers[id] > 0
  /\ timers' = [timers EXCEPT ![id] = @ - 1]
  /\ projects' = IF ok
                 THEN [projects EXCEPT ![id].status = "ready",
                                       ![id].outZip = TRUE,
                                       ![id].log = Append(@, "engine finished: ready")]
                 ELSE [projects EXCEPT ![id].status = "failed",
                                       ![id].log = Append(@, "engine failed")]
  /\ UNCHANGED <<webVars, applies, engine, alloc, pidWrap>>

(* ---------------- specifications ---------------- *)
StartOutcomes == {"noid", "nozip", "badzip", "nopkg", "ok"}
UploadOutcomes == {"nofile", "badzip", "ok"}

StartSteps(r) ==
  \/ \E o \in StartOutcomes, fw \in Frameworks : StartBegin(r, o, fw)
  \/ Install(r)
  \/ LaunchAttempt(r)
  \/ LaunchHealthy(r)
  \/ LaunchUnhealthy(r)
  \/ LaunchRetry(r)

(* Start-preview requests for one Vite project with a good archive. *)
ViteStartSteps(r) ==
  \/ StartBegin(r, "ok", "vite")
  \/ Install(r)
  \/ LaunchAttempt(r)
  \/ LaunchHealthy(r)
  \/ LaunchUnhealthy(r)
  \/ LaunchRetry(r)

ChildSteps ==
  \/ \E pid \in Pids : ChildBind(pid)
  \/ \E pid \in Pids : ChildExit(pid)

StopSteps ==
  \/ \E id \in ClientIds : StopBegin(id)
  \/ \E s \in stopping : StopFinish(s)

RouterSteps ==
  \/ \E id \in ClientIds : Health(id)
  \/ \E in \in RouteInputs : ProxyRequest(in[1], in[2])

ReaperSteps ==
  \/ Tick
  \/ CleanupSweep
  \/ \E o \in UploadOutcomes : Plan(o)
  \/ \E o \in UploadOutcomes : Diagnose(o)

(* The preview lifecycle: start-preview requests one after the other, the *)
(* children they spawn, and stop.                                         *)
Next ==
  \/ StartSteps(1)
  \/ ChildSteps
  \/ StopSteps

Spec == Init /\ [][Next]_vars

(* Start-preview requests under faults: a failing install, a command     *)
(* that cannot be spawned, a client that goes away.                       *)
FaultSteps(r) ==
  \/ InstallFailed(r)
  \/ LaunchSpawnError(r)
  \/ ClientAbort(r)

FaultNext ==
  \/ StartSteps(1)
  \/ FaultSteps(1)
  \/ ChildSteps

FaultSpec == Init /\ [][FaultNext]_vars

(* Start-preview requests with the scheduling the runtime gives them:    *)
(* the launcher's timers fire and its probes end, so each launcher step   *)
(* that stays possible is taken; a child process ends at some time. The   *)
(* install process is not the server's to schedule: nothing obliges it to *)
(* exit.                                                                  *)
LiveNext ==
  \/ ViteStartSteps(1)
  \/ ChildSteps

Fairness ==
  /\ WF_vars(LaunchAttempt(1))
  /\ WF_vars(LaunchHealthy(1) \/ LaunchUnhealthy(1))
  /\ WF_vars(LaunchRetry(1))
  /\ WF_vars(\E pid \in Pids : ChildExit(pid))

LiveSpec == Init /\ [][LiveNext]_vars /\ Fairness

(* Calls of the health prober against backends of each kind. *)
ProberNext ==
  \/ \E totalMs \in 0..MaxBudget, backend \in Backends : ProbeCall(totalMs, backend)
  \/ ProbeLoop
  \/ \E status \in {0, 200, 204, 404, 500}, d \in PingTimes : Ping(status, d)
  \/ ProbeSleep
  \/ ProbeReturn

ProberSpec == Init /\ [][ProberNext]_vars

(* Two start-preview requests that overlap. *)
OverlapNext ==
  \/ \E r \in Slots : StartSteps(r)
  \/ ChildSteps

OverlapSpec == Init /\ [][OverlapNext]_vars

(* Requests to the engine's POST /api/apply, with the injected detect,   *)
(* plan and applyFn succeeding or throwing.                               *)
EngineNext ==
  \E body \in ApplyRequestBody, detectThrows \in BOOLEAN, planThrows \in BOOLEAN :
    EngineApply(body, detectThrows, planThrows)

EngineSpec == Init /\ [][EngineNext]_vars

(* Uploads and verify requests to the demo API server, and its timers. *)
DemoNext ==
  \/ \E hasFile \in BOOLEAN, renameOk \in BOOLEAN : handleUpload(hasFile, renameOk)
  \/ \E id \in ProjectIds \cup {UnknownProject} : Verify(id)
  \/ \E id \in ProjectIds, ok \in BOOLEAN : BuildTimer(id, ok)

DemoSpec == Init /\ [][DemoNext]_vars

(* Plan and diagnose sessions, the apply requests that consume them, two *)
(* of which may overlap, and the sweep.                                   *)
ApplySteps(a) ==
  \/ \E sid \in {NoSession} \cup Uuids, fixes \in BOOLEAN : ApplyBegin(a, sid, fixes)
  \/ ApplyRun(a)
  \/ ApplyZip(a)
  \/ ApplyFinish(a)
  \/ ApplyFailed(a)

ApplyNext ==
  \/ \E a \in Slots : ApplySteps(a)
  \/ ReaperSteps

ApplySpec == Init /\ [][ApplyNext]_vars

(* The preview lifecycle on a host that runs long enough for pids to be  *)
(* given out a second time.                                               *)
ReuseNext ==
  \/ StartSteps(1)
  \/ ChildSteps
  \/ StopSteps
  \/ PidWrap

ReuseSpec == Init /\ [][ReuseNext]_vars

(* Calls of getFreePort over ranges of ports of which some are taken. *)
AllocNext ==
  \/ \E S \in SUBSET ScanPorts : PortsChange(S)
  \/ \E start \in ScanPorts, end \in ScanPorts : GetFreePortCall(start, end)
  \/ TryPortListen
  \/ TryPortClose
  \/ GetFreePortReturn

AllocSpec == Init /\ [][AllocNext]_vars

(* The router and the health endpoint over sessions that come and go. *)
RouterNext ==
  \/ ViteStartSteps(1)
  \/ ChildSteps
  \/ StopSteps
  \/ RouterSteps

RouterSpec == Init /\ [][RouterNext]_vars

(* The clock, the cleanup sweep and the stores it sweeps. *)
ReaperNext ==
  \/ ViteStartSteps(1)
  \/ ChildSteps
  \/ StopSteps
  \/ ReaperSteps

ReaperSpec == Init /\ [][ReaperNext]_vars

(* ---------------- the claims ---------------- *)

(* C1: in every reachable state no two sessions of previewSessions have   *)
(* the same port.                                                         *)
C1_NoTwoSessionsShareAPort ==
  \A a \in DOMAIN previewSessions : \A b \in DOMAIN previewSessions :
     a # b => previewSessions[a].port # previewSessions[b].port

(* C2: when a request calls the port allocator after another request's    *)
(* dev server was spawned and before that server has bound its port, the  *)
(* two launches are handed different ports.                               *)
C2_OverlappingLaunchesGetDistinctPorts ==
  [][\A r1 \in Slots : \A r2 \in Slots :
        ( /\ r1 # r2
          /\ reqs[r1].pc = "probe"
          /\ reqs[r1].child \in DOMAIN procs
          /\ procs[reqs[r1].child].srv = "boot"
          /\ reqs[r2].pc = "alloc"
          /\ reqs'[r2].pc = "probe" )
        => reqs'[r2].port # reqs[r1].port]_vars

(* C3: once the periodic sweep has run, no preview session older than the *)
(* TTL is left: the sweep has removed its registry entry, ended its       *)
(* process and deleted its temp directory.                                *)
PreviewExpired(id) == now - previewSessions[id].startedAt > CLEANUP_INTERVAL
C3_SweepReclaimsExpiredPreviews ==
  (lastSweep = now /\ now > 0) =>
     \A id \in DOMAIN previewSessions : ~PreviewExpired(id)

(* C4: when stop answers ok for a registered session, the registry entry  *)
(* is removed, the temp directory is deleted, and every process of the    *)
(* session's dev server, the subprocess npm forked included, has been     *)
(* sent the termination signal.                                           *)
TreeSignalled(pt, s) ==
  (s.childPid \in DOMAIN pt /\ pt[s.childPid].cwd = s.tempDir)
     => (~pt[s.childPid].npm /\ "srv" \in pt[s.childPid].sig)
C4_StopSignalsTreeDeletesDirAndEntry ==
  [][(resp'.kind = "stop" /\ resp'.status = 200) =>
        \A s \in stopping \ stopping' :
           /\ s.id \notin DOMAIN previewSessions'
           /\ s.tempDir \notin dirs'
           /\ TreeSignalled(procs', s)]_vars

(* C5: of two successive stop calls on a registered session id the first *)
(* succeeds (it removes the entry and answers ok), the second answers     *)
(* not-found, and no stop call ends in an error.                          *)
StopPendingIn(st, id) == \E s \in st : s.id = id
StopPending(id) == StopPendingIn(stopping, id)
C5_StopTwiceOkThenNotFound ==
  [][ /\ \A id \in DOMAIN previewSessions :
            id \notin DOMAIN previewSessions' => StopPendingIn(stopping', id)
      /\ resp'.kind = "stop" =>
            \/ /\ resp'.status = 200
               /\ StopPending(resp'.id)
               /\ ~StopPendingIn(stopping', resp'.id)
               /\ resp'.id \notin DOMAIN previewSessions'
            \/ /\ resp'.status = 404
               /\ resp'.id \notin DOMAIN previewSessions
               /\ previewSessions' = previewSessions ]_vars

(* The second stop of a session answered not-found while the first one is *)
(* still deleting the temp directory.                                     *)
C5_Witness ==
  /\ resp.kind = "stop"
  /\ resp.status = 404
  /\ resp.id \in handedOut
  /\ StopPending(resp.id)

(* C6 as stated: a DELETE that follows the ok answer of a stop of the     *)
(* same session id answers ok.                                            *)
AfterStopOk(id) == resp.kind = "stop" /\ resp.status = 200 /\ resp.id = id
C6_StopOfStoppedAnswersOk ==
  [][\A id \in Uuids :
        (AfterStopOk(id) /\ resp'.kind = "stop" /\ resp'.id = id)
           => resp'.status = 200]_vars

(* C6 amended: a DELETE on a session id that has already been stopped     *)
(* answers not-found (404, ok false) and changes nothing.                 *)
C6_StopOfStoppedAnswersNotFound ==
  [][\A id \in Uuids :
        (AfterStopOk(id) /\ resp'.kind = "stop" /\ resp'.id = id)
           => /\ resp'.status = 404
              /\ ~resp'.ok
              /\ previewSessions' = previewSessions
              /\ dirs' = dirs
              /\ procs' = procs]_vars

(* A stopped session whose dev server is gone too was stopped again.      *)
C6_Witness ==
  /\ resp.kind = "stop"
  /\ resp.status = 404
  /\ resp.id \in handedOut
  /\ ~StopPending(resp.id)
  /\ resp.id \notin DOMAIN previewSessions
  /\ DOMAIN procs = {}

(* C7: once a session id is out of the registry, every later use of it    *)
(* (prefix proxy, Referer proxy, health, stop) answers not-found, and the *)
(* id is never registered again.                                          *)
Gone == handedOut \ DOMAIN previewSessions
C7_RemovedIdStaysInvalid ==
  [][ /\ \A id \in Gone : id \notin DOMAIN previewSessions'
      /\ (resp'.kind \in {"prefix", "referer", "health", "stop"} /\ resp'.id \in Gone)
            => \/ resp'.status = 404 /\ ~resp'.ok
               \/ /\ resp'.kind = "stop"
                  /\ StopPending(resp'.id)
                  /\ ~StopPendingIn(stopping', resp'.id) ]_vars

(* A request under the path prefix of a stopped session got not-found.    *)
C7_Witness ==
  /\ resp.kind = "prefix"
  /\ resp.id \in Gone
  /\ ~StopPending(resp.id)
  /\ resp.status = 404

(* C8: a proxied request whose session id is not in the registry is       *)
(* answered not-found and is forwarded to no backend.                     *)
C8_UnknownSessionNotFound ==
  (resp.kind \in {"prefix", "referer"} /\ resp.id \notin DOMAIN previewSessions)
     => (resp.status = 404 /\ ~resp.ok /\ resp.port = 0)

(* An asset request whose Referer names an unregistered session, while    *)
(* another session is registered, got not-found.                          *)
C8_Witness ==
  /\ resp.kind = "referer"
  /\ resp.id \notin DOMAIN previewSessions
  /\ resp.status = 404
  /\ DOMAIN previewSessions # {}

(* C9: a request to /preview/<id><rest> of a registered session is        *)
(* forwarded to that session's port with the prefix stripped ("/" when    *)
(* nothing remains), and never to the port of a different session.        *)
Stripped(path) == IF path = << "/" >> THEN << >> ELSE path
C9_PrefixForwardsToOwnPortOnly ==
  (resp.kind = "prefix" /\ resp.ok) =>
     /\ resp.id \in DOMAIN previewSessions
     /\ resp.port = previewSessions[resp.id].port
     /\ resp.path # << >>
     /\ Stripped(resp.path) \in Rests
     /\ \A other \in (DOMAIN previewSessions) \ {resp.id} :
           previewSessions[other].port # resp.port

(* C10: every child a launch spawned, other than the handle it returned,  *)
(* has been terminated when the launch returns or fails: a running child  *)
(* is the one an unfinished launch is probing, or the child of the        *)
(* session its launch registered.                                         *)
Launching(d) == \E r \in Slots : reqs[r].pc # "idle" /\ reqs[r].tempDir = d
C11_FailedStartDeletesTempDir ==
  (resp.kind = "start" /\ resp.status = 500 /\ resp.id # 0) =>
     /\ resp.id \notin dirs
     /\ \A id \in DOMAIN previewSessions : previewSessions[id].tempDir # resp.id

(* C12: every entry of the registry has a live process, or its removal is *)
(* under way; no entry stays after its process has exited.                *)
HasLiveProcess(s) ==
  /\ s.childPid \in DOMAIN procs
  /\ procs[s.childPid].cwd = s.tempDir
C12_EntryHasLiveProcess ==
  \A id \in DOMAIN previewSessions :
     HasLiveProcess(previewSessions[id]) \/ StopPending(id)

(* C13: when the launcher returns {child, port}, the returned child is    *)
(* itself the server that listens on the returned port.                   *)
C13_ReturnedChildListensOnReturnedPort ==
  [][\A id \in (DOMAIN previewSessions') \ (DOMAIN previewSessions) :
        LET s == previewSessions'[id] IN
          /\ s.childPid \in DOMAIN procs
          /\ procs[s.childPid].srv = "listen"
          /\ procs[s.childPid].port = s.port]_vars

(* C14: when spawning the dev-server command fails, the request is        *)
(* answered with an error response and the orchestrator keeps running.    *)
C14_SpawnFailureIsAnsweredWithoutCrash ==
  [][\A r \in Slots :
        LaunchSpawnError(r) =>
           /\ alive'
           /\ resp'.kind = "start"
           /\ resp'.status = 500
           /\ ~resp'.ok]_vars

(* C15: when the dependency installation fails, the request is aborted    *)
(* with an error response and the launcher is not entered for it.         *)
InLauncher(q) == q.pc \in {"alloc", "probe", "sleep"}
C15_FailedInstallAbortsBeforeLaunch ==
  [][\A r \in Slots :
        /\ InstallFailed(r) =>
              /\ reqs'[r].pc = "idle"
              /\ resp'.kind = "start"
              /\ resp'.status = 500
              /\ ~resp'.ok
        /\ reqs'[r].installExit # 0 => ~InLauncher(reqs'[r])]_vars

(* C17: once the client has aborted a start-preview request, no session   *)
(* is registered for it and no process is spawned for it any more.        *)
C17_AbortedStartRegistersNothing ==
  [][\A r \in Slots :
        reqs[r].aborted =>
           /\ \A id \in (DOMAIN previewSessions') \ (DOMAIN previewSessions) :
                 previewSessions'[id].tempDir # reqs[r].tempDir
           /\ \A pid \in (DOMAIN procs') \ (DOMAIN procs) :
                 procs'[pid].cwd # reqs[r].tempDir]_vars

(* C16: every start-preview request in flight is answered at some time    *)
(* (with success or with an error), whatever the install process and the  *)
(* launched children do.                                                  *)
C16_EveryStartIsAnswered ==
  \A r \in Slots : (reqs[r].pc # "idle") ~> (reqs[r].pc = "idle")

(* C19: a launch spawns at most maxRetry child processes, and when its    *)
(* attempts are used up it ends with the launch failure instead of        *)
(* trying again.                                                          *)
C19_LaunchSpawnsAtMostMaxRetryChildren ==
  \A r \in Slots :
     /\ reqs[r].spawned <= maxRetry
     /\ reqs[r].attempt <= maxRetry
     /\ (reqs[r].attempt = maxRetry => reqs[r].pc = "alloc")

(* C20: a session enters the registry only in the step in which a launch  *)
(* whose probe succeeded returns, with that launch's port, child and temp *)
(* directory; the id, previewUrl and port of the start response are those *)
(* of the new entry, and a request to the previewUrl is routed to the     *)
(* port of the response.                                                  *)
NewSessions == (DOMAIN previewSessions') \ (DOMAIN previewSessions)
C20_RegisteredAfterSuccessAndAnsweredAsRegistered ==
  [][ /\ \A id \in NewSessions :
            /\ resp'.kind = "start" /\ resp'.ok /\ resp'.id = id
            /\ \E r \in Slots :
                  /\ reqs[r].pc = "probe"
                  /\ waitForOkAny(procs, reqs[r].port)
                  /\ previewSessions'[id].id = id
                  /\ previewSessions'[id].port = reqs[r].port
                  /\ previewSessions'[id].childPid = reqs[r].child
                  /\ previewSessions'[id].tempDir = reqs[r].tempDir
      /\ (resp'.kind = "start" /\ resp'.ok) =>
            /\ NewSessions = {resp'.id}
            /\ resp'.port = previewSessions'[resp'.id].port
            /\ resp'.path = Prefix(resp'.id)
            /\ (route(resp.path, NoReferer).port = resp.port)'
            /\ (route(resp.path, NoReferer).id = resp.id)' ]_vars

(* The start response of a second session, on another port than the      *)
(* first session's.                                                       *)
C20_Witness ==
  /\ resp.kind = "start"
  /\ resp.ok
  /\ resp.id \in DOMAIN previewSessions
  /\ resp.port # PORT_START
  /\ Cardinality(DOMAIN previewSessions) = 2

(* C18 as stated: the prober answers true exactly when a request of the   *)
(* call received a 2xx response before the total budget had elapsed, and  *)
(* it answers false against a backend that only sends 500.                *)
Got2xx == probe.okAt >= 0
C18_TrueIffOkBeforeBudgetElapsed ==
  probe.pc = "done" =>
     /\ probe.result <=> (Got2xx /\ probe.okAt < probe.totalMs)
     /\ probe.backend = "stub500" => ~probe.result

(* C18 amended: the prober answers true exactly when a request of the     *)
(* call received a 2xx response; that request belongs to a round that     *)
(* began before the budget had elapsed, and the round is finished even    *)
(* when the budget elapses during it. It answers false only once the      *)
(* budget has elapsed, and always against a backend that only sends 500.  *)
C18_TrueIffOkInRoundBegunWithinBudget ==
  probe.pc = "done" =>
     /\ probe.result <=> Got2xx
     /\ probe.result =>
           /\ responseOk(probe.last)
           /\ probe.roundAt < probe.totalMs
           /\ probe.okAt <= probe.roundAt + 2 * NumPaths
     /\ ~probe.result => probe.elapsed >= probe.totalMs
     /\ probe.backend = "stub500" => ~probe.result
     /\ (probe.backend = "stub200" /\ probe.totalMs > 0) => probe.result

(* The prober answered true for a 2xx response that arrived when the      *)
(* budget had already elapsed.                                            *)
C18_Witness ==
  /\ probe.pc = "done"
  /\ probe.result
  /\ probe.totalMs > 0
  /\ probe.okAt >= probe.totalMs

DryRunOnValidProject ==
  /\ engine' # engine
  /\ engine'.body.dryRun = "true" \/ engine'.body.options.dryRun = "true"
  /\ engine'.body.projectPath \in EngineProjects
  /\ engine'.res.error \notin {"detect failed", "plan failed"}

C23_RefererForwardsAssetOfRegisteredSession ==
  [][\A in \in RouteInputs :
       ProxyRequest(in[1], in[2]) =>
         LET path == in[1]
             ref == in[2]
             asset == path[1] \in AbsAssetTokens
             forwarded == resp'.kind = "referer" /\ resp'.ok
         IN /\ forwarded <=> (asset /\ ref \in DOMAIN previewSessions)
            /\ forwarded => /\ resp'.id = ref
                            /\ resp'.port = previewSessions[ref].port
                            /\ resp'.path = path
            /\ (ref = NoReferer \/ ~asset) => resp'.kind # "referer"]_vars

(* A request for /@vite was forwarded, as it came, to the port of the     *)
(* session its Referer names.                                             *)
C23_Witness ==
  /\ resp.kind = "referer"
  /\ resp.ok
  /\ resp.path = << "/@vite" >>
  /\ resp.id \in DOMAIN previewSessions
  /\ resp.port = previewSessions[resp.id].port

(* C24: every spawn of a launch happens in a step that has just obtained  *)
(* its port from getFreePort, with the child spawned before it in this    *)
(* launch already killed; so no two spawns use one allocation.            *)
C24_EverySpawnFollowsItsOwnAllocation ==
  [][\A r \in Slots :
       reqs'[r].spawned > reqs[r].spawned
         => /\ reqs[r].pc = "alloc"
            /\ reqs[r].child = 0
            /\ reqs'[r].port = getFreePort(procs)]_vars

(* The strategies the specification lists for each framework class. *)
ListedStrategies(fw) ==
  CASE fw = "vite" -> << "vite --port --strictPort" >>
    [] fw = "next" -> << "next --port", "next env PORT only" >>
    [] OTHER -> << "unknown --port" >>

FreeInRange(a) == {p \in a.start..a.end : p \notin a.inUse}
C26_LowestBindablePortOrError ==
  alloc.pc = "done" =>
     /\ alloc.listeners = {}
     /\ IF FreeInRange(alloc) = {}
        THEN alloc.error = "No free port found" /\ alloc.result = NoPort
        ELSE /\ alloc.error = "none"
             /\ alloc.result \in FreeInRange(alloc)
             /\ \A q \in FreeInRange(alloc) : alloc.result <= q

(* A call returned a port above the start of its range, the lower ports   *)
(* being taken.                                                           *)
C26_Witness ==
  /\ alloc.pc = "done"
  /\ alloc.result > alloc.start
  /\ alloc.result < alloc.end
  /\ alloc.start \in alloc.inUse

(* C27: a SIGTERM of the stop handler reaches only the process whose pid  *)
(* the stopped session holds and that was spawned for that session (it    *)
(* runs in the session's temp directory); a SIGTERM of the launcher's     *)
(* failure path reaches only the child the launch has just spawned; and   *)
(* no session and no launch holds a pid that is not a process id (-1).    *)
Signalled ==
  {pid \in DOMAIN procs : pid \notin DOMAIN procs' \/ procs'[pid] # procs[pid]}
C27_SignalOnlyOwnChild ==
  [][/\ \A id \in ClientIds :
          StopBegin(id) =>
            \A pid \in Signalled :
               /\ pid = previewSessions[id].childPid
               /\ procs[pid].cwd = previewSessions[id].tempDir
     /\ \A r \in Slots :
          LaunchUnhealthy(r) =>
            \A pid \in Signalled :
               /\ pid = reqs[r].child
               /\ procs[pid].cwd = reqs[r].tempDir
     /\ \A id \in DOMAIN previewSessions' : previewSessions'[id].childPid \in Pids
     /\ \A r \in Slots : reqs'[r].pc = "probe" => reqs'[r].child \in Pids]_vars

(* C28: two apply requests that have each produced a result archive were *)
(* made for different session ids: of two requests with one session id   *)
(* at most one gets as far as an archive.                                 *)
C28_SessionConsumedByOneApply ==
  \A a \in Slots, b \in Slots :
     (a # b /\ applies[a].resultId # 0 /\ applies[b].resultId # 0)
       => applies[a].sessionId # applies[b].sessionId

(* C29: a run of the sweep deletes the temp directory of no session for   *)
(* which an apply request is between its session lookup and the end of    *)
(* its result archive.                                                    *)
C29_SweepSparesSessionBeingApplied ==
  [][CleanupSweep =>
       \A a \in Slots :
          (applies[a].pc \in {"apply", "zip"} /\ applies[a].tempDir \in dirs)
            => applies[a].tempDir \in dirs']_vars

(* C30: a project enters as uploaded and stays; its status changes only   *)
(* uploaded -> building, building -> ready, building -> failed and        *)
(* failed -> building, so ready is final; a project has at most one timer *)
(* pending, and it has one exactly while it is building; a verify for a   *)
(* project that is building or ready changes nothing and schedules no     *)
(* timer.                                                                 *)
StatusMoves ==
  {<< "uploaded", "building" >>, << "building", "ready" >>,
   << "building", "failed" >>, << "failed", "building" >>}
C30_StatusMovesAndOneTimer ==
  [][/\ \A id \in (DOMAIN projects') \ (DOMAIN projects) :
          projects'[id].status = "uploaded" /\ timers'[id] = 0
     /\ \A id \in DOMAIN projects :
          /\ id \in DOMAIN projects'
          /\ projects'[id].status # projects[id].status
               => << projects[id].status, projects'[id].status >> \in StatusMoves
          /\ timers'[id] <= 1
          /\ timers'[id] = 1 <=> projects'[id].status = "building"
          /\ (Verify(id) /\ projects[id].status \in {"building", "ready"})
               => projects'[id] = projects[id] /\ timers'[id] = timers[id]
          /\ (Verify(id) /\ projects[id].status = "failed")
               => projects'[id].status = "building"]_vars

(* A project that failed once is building again, with its one timer, and  *)
(* another project is ready.                                              *)
C30_Witness ==
  \E id \in DOMAIN projects, other \in DOMAIN projects :
     /\ projects[id].status = "building"
     /\ "engine failed" \in {projects[id].log[i] : i \in DOMAIN projects[id].log}
     /\ timers[id] = 1
     /\ projects[other].status = "ready"

=============================================================================
